---- MODULE Spec2Model ----
(***************************************************************************)
(* Model of the build worker of parallel-webpack, src/webpackWorker.js.    *)
(*                                                                         *)
(* The worker is one exported function.  Its synchronous part loads and    *)
(* validates the configuration; the rest runs in a promise continuation    *)
(* that starts the compiler and registers the SIGINT listener.  After      *)
(* that the process is driven by two kinds of events: completions of a     *)
(* compile (finishedCallback) and the SIGINT signal (shutdownCallback when *)
(* the listener is registered, the default disposition otherwise).         *)
(*                                                                         *)
(* Everything the worker does to the outside world (console, webpack,      *)
(* process, the done callback, the IPC notifier) is appended to `calls`,   *)
(* in program order.                                                       *)
(***************************************************************************)
EXTENDS Integers, Sequences, FiniteSets, TLC

\* ------------------------------------------------------------------ bounds
MaxConfigs  == 2      \* longest configuration collection / expected count
MaxCompiles == 3      \* compile completions delivered by one watcher
MaxErrors   == 1      \* stats.compilation.errors.length ranges over 0..MaxErrors
MaxNameLen  == 2      \* longest name or filename template, in tokens

Undefined == -1       \* the value of a property that is not there

VARIABLES
    pc,                       \* position of the worker process
    options,                  \* [watch, json, stats]: the options bag
    index,                    \* the configuration index
    expectedConfigLength,     \* the count the coordinator expects
    config,                   \* what loadConfigurationFile returned
    webpackWatch,             \* truthiness of webpack.watch
    result,                   \* what the exported function returned
    started,                  \* "none" | "run" | "watch": compiler method called
    watcher,                  \* the closure variable `watcher` is set
    sigintListener,           \* shutdownCallback is registered for SIGINT
    hasCompletedOneCompile,   \* the closure variable of that name
    outcomes,                 \* completions the compiler has delivered, in order
    calls,                    \* outward calls of the worker, in order
    webpackConfig,            \* the selected configuration: stats, name, filename, entry
    statsOptions,             \* the statistics sub-options of the options bag
    outputOptions,            \* the closure constant of that name (line 96)
    appName                   \* the value getAppName returned

content == <<webpackConfig, statsOptions, appName>>

vars == <<pc, options, index, expectedConfigLength, config, webpackWatch,
          result, started, watcher, sigintListener, hasCompletedOneCompile,
          outcomes, calls, webpackConfig, statsOptions, outputOptions, appName>>

\* ------------------------------------------------------------ input domains
OptionsBags == [watch : BOOLEAN, json : BOOLEAN, stats : BOOLEAN]

\* A loaded artifact.  isArray: Array.isArray(config).  length: the value of
\* config.length (Undefined for an object without that property).  isPromise:
\* the loader returned a deferred value; inner is what it resolves to.
Artifacts ==
    {[isArray |-> TRUE, isPromise |-> FALSE, length |-> n, inner |-> "array"] :
        n \in 0..MaxConfigs}
    \cup
    {[isArray |-> FALSE, isPromise |-> FALSE, length |-> n, inner |-> "record"] :
        n \in {Undefined} \cup 0..MaxConfigs}
    \cup
    {[isArray |-> FALSE, isPromise |-> TRUE, length |-> Undefined, inner |-> i] :
        i \in {"record", "array"}}

\* ------------------------------------------------- configuration content
\* A property value: "undefined" is a property that is not set, "falsy" a
\* defined value that is false in a condition (false, null, 0, '').
ConfigValues == {"undefined", "cfg"}

OptionValues == {"undefined", "falsy", "opt"}

\* webpackConfig.stats: the five fields the options can override, and one
\* other field (hash) that they cannot; no stats at all is the empty bag
StatsBags == [modulesSort : ConfigValues, chunksSort : ConfigValues,
              assetsSort : ConfigValues, exclude : ConfigValues,
              colors : ConfigValues, hash : ConfigValues]

StatsOptionBags == [modulesSort : OptionValues, chunksSort : OptionValues,
                    assetsSort : OptionValues, exclude : OptionValues,
                    colors : OptionValues]

EmptyBag == [modulesSort |-> "undefined", chunksSort |-> "undefined",
             assetsSort |-> "undefined", exclude |-> "undefined",
             colors |-> "undefined", hash |-> "undefined"]

NoStatsOptions == [modulesSort |-> "undefined", chunksSort |-> "undefined",
                   assetsSort |-> "undefined", exclude |-> "undefined",
                   colors |-> "undefined"]

\* A string is a sequence of tokens: the placeholder or literal text.  The
\* empty sequence is a name that is not set.
Placeholder == "[name]"

Strings == UNION {[1..n -> {Placeholder, "x"}] : n \in 0..MaxNameLen}

\* webpackConfig.entry: isObject is typeof entry === 'object', keys is
\* Object.keys(entry); an entry that is a path string has no keys
Entries ==
    {[isObject |-> FALSE, keys |-> <<>>]}
    \cup
    {[isObject |-> TRUE, keys |-> k] :
        k \in {<<>>, <<"main">>, <<"app">>, <<"main", "app">>}}

DefaultConfig == [stats |-> EmptyBag, name |-> <<>>, filename |-> <<Placeholder, "x">>,
                  entry |-> [isObject |-> TRUE, keys |-> <<"main">>]]

\* line 25: appName.replace(/\[name]/g, entryName)
Replace(str, entryName) ==
    [i \in 1..Len(str) |-> IF str[i] = Placeholder THEN entryName ELSE str[i]]

getAppName_AnyEntryCount(cfg) ==
    LET appName0 == IF cfg.name # <<>> THEN cfg.name ELSE cfg.filename
    IN  IF (\E i \in 1..Len(appName0) : appName0[i] = Placeholder)
           /\ cfg.entry.isObject /\ Len(cfg.entry.keys) >= 1
        THEN Replace(appName0, cfg.entry.keys[1])
        ELSE appName0

\* lines 19-29
getAppName(cfg) ==
    LET appName0 == IF cfg.name # <<>> THEN cfg.name ELSE cfg.filename
    IN  IF (\E i \in 1..Len(appName0) : appName0[i] = Placeholder) /\ cfg.entry.isObject
        THEN IF Len(cfg.entry.keys) = 1
             THEN Replace(appName0, cfg.entry.keys[1])
             ELSE appName0
        ELSE appName0

getOutputOptions_IfTruthy(cfg, opts) ==
    LET o0 == cfg.stats
        o1 == IF opts.modulesSort = "opt" THEN [o0 EXCEPT !.modulesSort = opts.modulesSort] ELSE o0
        o2 == IF opts.chunksSort = "opt" THEN [o1 EXCEPT !.chunksSort = opts.chunksSort] ELSE o1
        o3 == IF opts.assetsSort = "opt" THEN [o2 EXCEPT !.assetsSort = opts.assetsSort] ELSE o2
        o4 == IF opts.exclude = "opt" THEN [o3 EXCEPT !.exclude = opts.exclude] ELSE o3
        o5 == IF opts.colors = "opt" THEN [o4 EXCEPT !.colors = opts.colors] ELSE o4
    IN  o5

\* lines 31-49
getOutputOptions(cfg, opts) ==
    LET o0 == cfg.stats
        o1 == IF opts.modulesSort # "undefined"
              THEN [o0 EXCEPT !.modulesSort = opts.modulesSort] ELSE o0
        o2 == IF opts.chunksSort # "undefined"
              THEN [o1 EXCEPT !.chunksSort = opts.chunksSort] ELSE o1
        o3 == IF opts.assetsSort # "undefined"
              THEN [o2 EXCEPT !.assetsSort = opts.assetsSort] ELSE o2
        o4 == IF opts.exclude # "undefined"
              THEN [o3 EXCEPT !.exclude = opts.exclude] ELSE o3
        o5 == IF opts.colors # "undefined"
              THEN [o4 EXCEPT !.colors = opts.colors] ELSE o4
    IN  o5

\* ------------------------------------------------------------------ events
Ev(fn, arg) == [fn |-> fn, arg |-> arg, stats |-> FALSE, n |-> Undefined]

EvDone(arg, withStats) == [fn |-> "done", arg |-> arg, stats |-> withStats, n |-> Undefined]

EvNotify(i) == [fn |-> "notify", arg |-> "index", stats |-> FALSE, n |-> i]

EvExit(code) == [fn |-> "exit", arg |-> "code", stats |-> FALSE, n |-> code]

\* the closure state the two callbacks read and write
Closure == [listener |-> sigintListener, has |-> hasCompletedOneCompile, calls |-> calls]

Emit(s, evs) == [s EXCEPT !.calls = @ \o evs]

\* ------------------------------------------------------------ module.exports
\* lines 77-80: the outer test of the count check
CountSuspect(cfg, expected) ==
    \/ (expected # 1 /\ ~cfg.isArray)
    \/ (cfg.isArray /\ cfg.length # expected)

\* lines 77-90: the worker rejects
CountMismatch(cfg, expected) ==
    CountSuspect(cfg, expected) /\ cfg.length # expected

\* lines 91-94: the value the continuation receives as webpackConfig
Selected(cfg) ==
    IF cfg.isArray THEN "element"
    ELSE IF cfg.isPromise THEN cfg.inner
    ELSE "record"

\* the (err, stats) pair a completion carries; a fatal error carries no stats
Outcome(err, nerrors) == [err |-> err, nerrors |-> IF err THEN 0 ELSE nerrors]

\* lines 113-118: the fatal-error branch
fatalError(s) ==
    [Emit(s, <<Ev("console", "fatal"), Ev("console", "fatal"),
               Ev("removeListener", "SIGINT"), EvDone("fatal", FALSE)>>)
        EXCEPT !.listener = FALSE]

errorsResult_StatsIfRequested(opts) == EvDone("errors", opts.stats)

\* lines 134-141: the object a one-shot build with compilation errors reports
errorsResult(opts) == EvDone("errors", TRUE)

\* lines 144-158: the summary of a build that was not cut short
summary(s, opts) ==
    IF ~opts.json
    THEN Emit(s, (IF opts.stats THEN <<Ev("console", "stats")>> ELSE <<>>)
                 \o <<Ev("console", "finished")>>)
    ELSE s

notifyFirstCompile_FlagNotSet(s, idx) ==
    IF ~s.has THEN Emit(s, <<EvNotify(idx)>>) ELSE s

\* lines 167-170: the readiness notification
notifyFirstCompile(s, idx) ==
    IF ~s.has
    THEN [Emit(s, <<EvNotify(idx)>>) EXCEPT !.has = TRUE]
    ELSE s

completed_NotifyWithoutWatch(s, opts, idx) ==
    IF ~opts.watch
    THEN notifyFirstCompile([Emit(s, <<Ev("removeListener", "SIGINT"),
                                       EvDone("success", opts.stats)>>)
                                EXCEPT !.listener = FALSE], idx)
    ELSE notifyFirstCompile(s, idx)

completed_DoneInWatchMode(s, opts, idx) ==
    [Emit(s, <<Ev("removeListener", "SIGINT"), EvDone("success", opts.stats)>>)
        EXCEPT !.listener = FALSE]

\* lines 159-170: the end of a build that was not cut short
completed(s, opts, idx) ==
    IF ~opts.watch
    THEN [Emit(s, <<Ev("removeListener", "SIGINT"), EvDone("success", opts.stats)>>)
             EXCEPT !.listener = FALSE]
    ELSE notifyFirstCompile(s, idx)

\* lines 112-171
finishedCallback(s, opts, idx, err, nerrors) ==
    IF err
    THEN fatalError(s)
    ELSE IF nerrors > 0 /\ ~opts.watch
    THEN [Emit(s, <<Ev("removeListener", "SIGINT"), errorsResult(opts)>>)
             EXCEPT !.listener = FALSE]
    ELSE completed(summary(IF nerrors > 0 THEN Emit(s, <<Ev("console", "errors")>>) ELSE s,
                           opts),
                   opts, idx)

shutdownCallback_DoneInElse(s, hasWatcher, closeSync) ==
    Emit(s, (IF hasWatcher
             THEN <<Ev("close", "watcher")>>
                  \o (IF closeSync THEN <<EvDone("close", FALSE)>> ELSE <<>>)
             ELSE <<EvDone("forced", FALSE)>>)
            \o <<EvExit(0)>>)

shutdownCallback_CloseLast(s, hasWatcher, closeSync) ==
    Emit(s, <<EvDone("forced", FALSE)>>
            \o (IF hasWatcher
                THEN <<Ev("close", "watcher")>>
                     \o (IF closeSync THEN <<EvDone("close", FALSE)>> ELSE <<>>)
                ELSE <<>>)
            \o <<EvExit(0)>>)

\* lines 100-111; closeSync: watcher.close calls its callback before returning
shutdownCallback(s, hasWatcher, closeSync) ==
    Emit(s, (IF hasWatcher
             THEN <<Ev("close", "watcher")>>
                  \o (IF closeSync THEN <<EvDone("close", FALSE)>> ELSE <<>>)
             ELSE <<>>)
            \o <<EvDone("forced", FALSE), EvExit(0)>>)

\* ----------------------------------------------------------------- actions
Init ==
    /\ pc = "idle"
    /\ options = [watch |-> FALSE, json |-> FALSE, stats |-> FALSE]
    /\ index = 0
    /\ expectedConfigLength = 1
    /\ config = [isArray |-> FALSE, isPromise |-> FALSE, length |-> Undefined, inner |-> "record"]
    /\ webpackWatch = FALSE
    /\ result = "none"
    /\ started = "none"
    /\ watcher = FALSE
    /\ sigintListener = FALSE
    /\ hasCompletedOneCompile = FALSE
    /\ outcomes = <<>>
    /\ calls = <<>>
    /\ webpackConfig = DefaultConfig
    /\ statsOptions = NoStatsOptions
    /\ outputOptions = EmptyBag
    /\ appName = <<>>

\* lines 63-94: the synchronous part of the exported function
RunBuild ==
    /\ pc = "idle"
    /\ \E o \in OptionsBags, cfg \in Artifacts, e \in 1..MaxConfigs, ww \in BOOLEAN :
         \E i \in 0..(e - 1) :
            /\ options' = o
            /\ config' = cfg
            /\ expectedConfigLength' = e
            /\ index' = i
            /\ webpackWatch' = ww
            /\ IF CountMismatch(cfg, e)
               THEN /\ calls' = calls \o <<Ev("console", "mismatch")>>
                    /\ result' = "rejected"
                    /\ pc' = "rejected"
               ELSE /\ calls' = calls
                    /\ result' = "undefined"
                    /\ pc' = "pending"
    /\ UNCHANGED <<started, watcher, sigintListener, hasCompletedOneCompile, outcomes>>
    /\ UNCHANGED <<content, outputOptions>>

\* lines 94-191: the continuation.  sync: the compiler delivers its first
\* completion before run/watch returns; otherwise it delivers it later.
Continuation ==
    /\ pc = "pending"
    /\ \E sync \in BOOLEAN, err \in BOOLEAN, nerrors \in 0..MaxErrors :
         LET method == IF options.watch \/ webpackWatch THEN "watch" ELSE "run"
             s0 == Emit(Closure,
                        (IF ~options.json THEN <<Ev("console", "start")>> ELSE <<>>)
                        \o <<Ev("webpack", Selected(config)), Ev(method, "finishedCallback")>>)
             s1 == IF sync THEN finishedCallback(s0, options, index, err, nerrors) ELSE s0
             s2 == [Emit(s1, <<Ev("on", "SIGINT")>>) EXCEPT !.listener = TRUE]
         IN  /\ (~sync => (~err /\ nerrors = 0))
             /\ started' = method
             /\ watcher' = (method = "watch")
             /\ outcomes' = IF sync THEN <<Outcome(err, nerrors)>> ELSE <<>>
             /\ sigintListener' = s2.listener
             /\ hasCompletedOneCompile' = s2.has
             /\ calls' = s2.calls
    /\ pc' = "running"
    /\ outputOptions' = getOutputOptions(webpackConfig, statsOptions)
    /\ UNCHANGED <<options, index, expectedConfigLength, config, webpackWatch, result>>
    /\ UNCHANGED content

\* the compiler delivers a completion from the event loop
Finished ==
    /\ pc = "running"
    /\ \/ (started = "run" /\ Len(outcomes) = 0)
       \/ (started = "watch" /\ Len(outcomes) < MaxCompiles)
    /\ \E err \in BOOLEAN, nerrors \in 0..MaxErrors :
         LET s == finishedCallback(Closure, options, index, err, nerrors)
         IN  /\ sigintListener' = s.listener
             /\ hasCompletedOneCompile' = s.has
             /\ calls' = s.calls
             /\ outcomes' = Append(outcomes, Outcome(err, nerrors))
    /\ UNCHANGED <<pc, options, index, expectedConfigLength, config, webpackWatch,
                   result, started, watcher>>
    /\ UNCHANGED <<content, outputOptions>>

\* SIGINT arrives while the listener is registered (line 190)
Interrupt ==
    /\ pc = "running"
    /\ sigintListener
    /\ \E closeSync \in BOOLEAN :
         calls' = shutdownCallback(Closure, watcher, closeSync).calls
    /\ pc' = "exited"
    /\ UNCHANGED <<options, index, expectedConfigLength, config, webpackWatch, result,
                   started, watcher, sigintListener, hasCompletedOneCompile, outcomes>>
    /\ UNCHANGED <<content, outputOptions>>

\* SIGINT arrives while no listener is registered: the default disposition
\* ends the process and no code of the worker runs
Killed ==
    /\ pc \in {"pending", "running"}
    /\ ~sigintListener
    /\ pc' = "killed"
    /\ UNCHANGED <<options, index, expectedConfigLength, config, webpackWatch, result,
                   started, watcher, sigintListener, hasCompletedOneCompile, outcomes, calls>>
    /\ UNCHANGED <<content, outputOptions>>

Next == RunBuild \/ Continuation \/ Finished \/ Interrupt \/ Killed

Spec == Init /\ [][Next]_vars

\* ----------------------------------------- the two helpers on their own
worker == <<options, index, expectedConfigLength, config, webpackWatch, result,
            started, watcher, sigintListener, hasCompletedOneCompile, outcomes, calls>>

WorkerIdle ==
    /\ options = [watch |-> FALSE, json |-> FALSE, stats |-> FALSE]
    /\ index = 0
    /\ expectedConfigLength = 1
    /\ config = [isArray |-> FALSE, isPromise |-> FALSE, length |-> Undefined, inner |-> "record"]
    /\ webpackWatch = FALSE
    /\ result = "none"
    /\ started = "none"
    /\ watcher = FALSE
    /\ sigintListener = FALSE
    /\ hasCompletedOneCompile = FALSE
    /\ outcomes = <<>>
    /\ calls = <<>>

\* every stats bag of a configuration with every set of statistics options
InitOutputOptions ==
    /\ WorkerIdle
    /\ pc = "getOutputOptions"
    /\ \E st \in StatsBags : webpackConfig = [DefaultConfig EXCEPT !.stats = st]
    /\ statsOptions \in StatsOptionBags
    /\ outputOptions = EmptyBag
    /\ appName = <<>>

\* line 96
CallGetOutputOptions ==
    /\ pc = "getOutputOptions"
    /\ outputOptions' = getOutputOptions(webpackConfig, statsOptions)
    /\ pc' = "gotOutputOptions"
    /\ UNCHANGED <<worker, content>>

SpecOutputOptions == InitOutputOptions /\ [][CallGetOutputOptions]_vars

\* every name, filename template and entry of a configuration; a
\* configuration without a name has a filename template
InitAppName ==
    /\ WorkerIdle
    /\ pc = "getAppName"
    /\ \E nm \in Strings, fn \in Strings \ {<<>>}, en \in Entries :
         webpackConfig = [stats |-> EmptyBag, name |-> nm, filename |-> fn, entry |-> en]
    /\ statsOptions = NoStatsOptions
    /\ outputOptions = EmptyBag
    /\ appName = <<>>

\* lines 108, 123, 155, 177
CallGetAppName ==
    /\ pc = "getAppName"
    /\ appName' = getAppName(webpackConfig)
    /\ pc' = "gotAppName"
    /\ UNCHANGED <<worker, webpackConfig, statsOptions, outputOptions>>

SpecAppName == InitAppName /\ [][CallGetAppName]_vars

\* ------------------------------------------------------------- observations
Made(c, fn) == {i \in 1..Len(c) : c[i].fn = fn}

MadeArg(c, fn, arg) == {i \in 1..Len(c) : c[i].fn = fn /\ c[i].arg = arg}

CompileErrors(o) == ~o.err /\ o.nerrors > 0

Success(o) == ~o.err /\ o.nerrors = 0

Which(P(_)) == {k \in 1..Len(outcomes) : P(outcomes[k])}

Fatal(o) == o.err

\* ------------------------------------------------------------------- C1
\* C1: in one-shot mode with a valid configuration count, once the compile
\* has produced an outcome (success, compilation errors or a fatal error) the
\* done callback has been invoked exactly once.
C1_ExactlyOneDone ==
    (~options.watch /\ result = "undefined" /\ Len(outcomes) >= 1)
        => Cardinality(Made(calls, "done")) = 1

\* ------------------------------------------------------------------- C2
\* C2: in a one-shot run no execution has both a compile result and the
\* interrupt invoke the done callback.
C2_NoCompileAndInterruptDone ==
    ~options.watch =>
        ~(/\ \E i \in Made(calls, "done") : calls[i].arg \in {"fatal", "errors", "success"}
          /\ MadeArg(calls, "done", "forced") # {})

\* ------------------------------------------------------------------- C3
\* C3: on a configuration-count mismatch (not a collection and the expected
\* count is not 1, or a collection of another length) the call is rejected and
\* the compiler is never invoked, neither run nor watch is started.
C3_MismatchNeverCompiles ==
    (pc # "idle" /\ CountSuspect(config, expectedConfigLength))
        => /\ result = "rejected"
           /\ Made(calls, "webpack") \cup Made(calls, "run") \cup Made(calls, "watch") = {}

\* ------------------------------------------------------------------- C4
\* C4: in watch mode the readiness notification is sent at most once over any
\* sequence of completions, and it carries the index given to the worker.
C4_NotifyAtMostOnce ==
    options.watch =>
        /\ Cardinality(Made(calls, "notify")) <= 1
        /\ \A i \in Made(calls, "notify") : calls[i].n = index

C4_Witness ==
    /\ options.watch
    /\ Cardinality(Which(Success)) >= 2
    /\ Cardinality(Which(CompileErrors)) >= 1
    /\ Cardinality(Made(calls, "notify")) = 1

\* ------------------------------------------------------------------- C5
\* C5: in watch mode the readiness notification is never sent while every
\* completed compile reported compilation errors.
C5_NoNotifyOnCompileErrors ==
    (options.watch /\ Which(CompileErrors) = 1..Len(outcomes))
        => Made(calls, "notify") = {}

\* ------------------------------------------------------------------- C6
CloseBeforeForced(c) ==
    /\ MadeArg(c, "close", "watcher") # {}
    /\ MadeArg(c, "done", "forced") # {}
    /\ \A i \in MadeArg(c, "close", "watcher"), j \in MadeArg(c, "done", "forced") : i < j

SignalArrives == pc = "running" /\ pc' \in {"exited", "killed"}

EndsWithForcedExit(c) ==
    /\ Len(c) >= 2
    /\ c[Len(c) - 1] = EvDone("forced", FALSE)
    /\ c[Len(c)] = EvExit(0)

\* C7: when the registered interrupt handler fires, the done callback gets
\* the forced-shutdown message, with or without a watcher, and the process
\* exits with code 0; nothing happens after the exit.
C7_ForcedShutdownTerminal ==
    /\ [](pc = "exited" => EndsWithForcedExit(calls))
    /\ [][(pc = "running" /\ sigintListener /\ pc' # "running") => pc' = "exited"]_vars
    /\ [][pc = "exited" => (calls' = calls /\ outcomes' = outcomes)]_vars

C7_Witness ==
    /\ pc = "exited"
    /\ ~watcher
    /\ Len(outcomes) = 0
    /\ EndsWithForcedExit(calls)

\* ------------------------------------------------------------------- C8
\* C8: in watch mode a compile with compilation errors or a successful compile
\* does not invoke the done callback and leaves the worker running; only a
\* fatal error or the interrupt handler invokes it.
C8_WatchDoneOnlyFatalOrInterrupt ==
    /\ [](options.watch =>
            /\ \A i \in Made(calls, "done") : calls[i].arg \in {"fatal", "close", "forced"}
            /\ Cardinality(MadeArg(calls, "done", "fatal")) = Cardinality(Which(Fatal))
            /\ (MadeArg(calls, "done", "close") \cup MadeArg(calls, "done", "forced") # {}
                   => pc = "exited"))
    /\ [][(options.watch /\ outcomes' # outcomes /\ ~outcomes'[Len(outcomes')].err)
             => (Cardinality(Made(calls', "done")) = Cardinality(Made(calls, "done"))
                 /\ pc' = "running")]_vars

C8_Witness ==
    /\ options.watch
    /\ pc = "running"
    /\ Which(CompileErrors) # {}
    /\ Cardinality(Which(Success)) >= 2
    /\ Made(calls, "done") = {}

\* ------------------------------------------------------------------- C9
\* C9 as stated: in one-shot mode the object reported for compilation errors
\* carries the serialized statistics only if options.stats was requested.
C9_ErrorStatsOnlyIfRequested ==
    ~options.watch =>
        \A i \in MadeArg(calls, "done", "errors") : calls[i].stats => options.stats

\* C9 as amended: in one-shot mode every compile that reports compilation
\* errors is reported to the done callback with an object that holds the
\* message and always carries the serialized statistics, whatever
\* options.stats is.
C9_ErrorStatsAlways ==
    ~options.watch =>
        /\ \A i \in MadeArg(calls, "done", "errors") : calls[i].stats
        /\ Cardinality(MadeArg(calls, "done", "errors")) = Cardinality(Which(CompileErrors))

C9_Witness ==
    /\ ~options.watch
    /\ ~options.stats
    /\ Which(CompileErrors) # {}
    /\ \E i \in MadeArg(calls, "done", "errors") : calls[i].stats

\* ------------------------------------------------------------------- C10
\* C10: with options.json set the worker writes no human-readable line on any
\* path.
C10_SilentWritesNothing ==
    options.json => Made(calls, "console") = {}

\* ------------------------------------------------------------------- C13
\* C13: once a completion has reported a fatal error through the done
\* callback, later completions make the worker do nothing more: no further
\* done call and no readiness notification, in both modes.
C13_FatalIsTerminal ==
    [][(Which(Fatal) # {} /\ outcomes' # outcomes)
          => /\ Cardinality(Made(calls', "done")) = Cardinality(Made(calls, "done"))
             /\ Cardinality(Made(calls', "notify")) = Cardinality(Made(calls, "notify"))]_vars

\* ------------------------------------------------------------------- C14
\* C14: once a one-shot run has had its compile completion, the interrupt
\* handler is not registered in any later state, whenever the compiler
\* delivered the completion.
C14_NoListenerAfterOneShotCompletion ==
    (~options.watch /\ Len(outcomes) >= 1) => ~sigintListener

\* ------------------------------------------------------------------- C15
\* C15: the interrupt handler is registered before run or watch is called on
\* the compiler.
C15_ListenerBeforeCompilerStart ==
    \A i \in Made(calls, "run") \cup Made(calls, "watch") :
        \E j \in Made(calls, "on") : j < i

\* ------------------------------------------------------------------- C16
\* C16: the compiler is always handed a single configuration record: the
\* element at index when the artifact, delivered directly or as a deferred
\* value, is a collection, and the artifact itself when it is a single record.
C16_CompilerGetsOneRecord ==
    \A i \in Made(calls, "webpack") :
        calls[i].arg = (IF config.inner = "array" THEN "element" ELSE "record")

\* ------------------------------------------------------------------- C17
\* C17: on a configuration-count mismatch the done callback is never invoked,
\* no interrupt handler is ever registered and no compiler or watcher exists.
C17_MismatchLeavesWorkerUntouched ==
    (pc # "idle" /\ CountSuspect(config, expectedConfigLength))
        => /\ Made(calls, "done") = {}
           /\ Made(calls, "on") = {}
           /\ ~sigintListener
           /\ ~watcher
           /\ outcomes = <<>>

\* ------------------------------------------------------------------- C18
\* C18: with options.watch false the readiness notification is never sent,
\* whatever completions arrive, also when watch was started only because
\* webpack.watch is set.
C18_NoNotifyWithoutWatch ==
    ~options.watch => Made(calls, "notify") = {}

C18_Witness ==
    /\ ~options.watch
    /\ webpackWatch
    /\ started = "watch"
    /\ Cardinality(Which(Success)) >= 2
    /\ Made(calls, "notify") = {}

\* ------------------------------------------------------------------- C11
Overridable == {"modulesSort", "chunksSort", "assetsSort", "exclude", "colors"}

\* C11: the effective statistics options are the configuration's own stats
\* settings where each of modulesSort, chunksSort, assetsSort, exclude and
\* colors that is defined in the options replaces the configuration's value;
\* an undefined option keeps the configuration's value and no other field is
\* changed or removed.
C11_OptionsOverrideFieldByField ==
    pc = "gotOutputOptions" =>
        /\ DOMAIN outputOptions = DOMAIN webpackConfig.stats
        /\ \A f \in DOMAIN webpackConfig.stats :
              outputOptions[f] =
                 IF f \in Overridable /\ statsOptions[f] # "undefined"
                 THEN statsOptions[f]
                 ELSE webpackConfig.stats[f]

C11_Witness ==
    /\ pc = "gotOutputOptions"
    /\ webpackConfig.stats.colors = "cfg" /\ statsOptions.colors = "falsy"
    /\ outputOptions.colors = "falsy"
    /\ webpackConfig.stats.modulesSort = "cfg" /\ statsOptions.modulesSort = "undefined"
    /\ outputOptions.modulesSort = "cfg"
    /\ webpackConfig.stats.exclude = "undefined" /\ statsOptions.exclude = "opt"
    /\ outputOptions.exclude = "opt"
    /\ outputOptions.hash = "cfg"

\* ------------------------------------------------------------------- C12
HasPlaceholder(str) == \E i \in 1..Len(str) : str[i] = Placeholder

\* the number of entry points webpack builds: a path string is one entry point
EntryPoints(en) == IF en.isObject THEN Len(en.keys) ELSE 1

EntryPointName(en) == IF en.isObject THEN en.keys[1] ELSE "main"

\* C12 as stated: the display name is the explicit name when one is set,
\* otherwise the filename template, whose placeholder is replaced by the
\* entry-point name exactly when the configuration has exactly one entry
\* point.
C12_NameOrSubstitutedTemplate ==
    pc = "gotAppName" =>
        appName =
           IF webpackConfig.name # <<>>
           THEN webpackConfig.name
           ELSE IF EntryPoints(webpackConfig.entry) = 1
           THEN Replace(webpackConfig.filename, EntryPointName(webpackConfig.entry))
           ELSE webpackConfig.filename

\* C12 as amended: the display name is built from the explicit name when one
\* is set and from the filename template otherwise; every placeholder in
\* that string, the explicit name included, is replaced by the entry key
\* exactly when entry is an object with exactly one key, and the string is
\* returned unchanged in every other case.
C12_ChosenStringSubstituted ==
    pc = "gotAppName" =>
        LET chosen == IF webpackConfig.name # <<>> THEN webpackConfig.name
                      ELSE webpackConfig.filename
            single == webpackConfig.entry.isObject /\ Len(webpackConfig.entry.keys) = 1
        IN  /\ Len(appName) = Len(chosen)
            /\ \A i \in 1..Len(chosen) :
                  /\ (chosen[i] # Placeholder => appName[i] = chosen[i])
                  /\ (chosen[i] = Placeholder /\ single
                         => appName[i] = webpackConfig.entry.keys[1])
                  /\ (chosen[i] = Placeholder /\ ~single => appName[i] = Placeholder)

C12_Witness ==
    /\ pc = "gotAppName"
    /\ webpackConfig.name = <<>>
    /\ webpackConfig.filename = <<Placeholder, "x">>
    /\ webpackConfig.entry = [isObject |-> TRUE, keys |-> <<"main">>]
    /\ appName = <<"main", "x">>

====
